---- MODULE Spec2Model ----
(***************************************************************************)
(* Customer onboarding backend: registration, customer lifecycle, review  *)
(* scheduling, risk scoring and the dashboard, modelled from               *)
(* routes/auth.js, routes/customers.js, routes/reviews.js,                 *)
(* routes/dashboard.js, utils/middleware.js and utils/calculateRisk.js.    *)
(*                                                                         *)
(* Representation.  The clock now counts quarter days (6 hours) since      *)
(* 1970-01-01T00:00Z, which is exact for the whole years the scorer        *)
(* derives from Date.now().  A JavaScript Date used for its calendar day   *)
(* is the number of whole days since 1970-01-01: the process runs in UTC,  *)
(* setMonth keeps the time of day and toISOString().slice(0, 10) drops it. *)
(* A date string 'YYYY-MM-DD' (and the date part of an ISO timestamp) is   *)
(* the number YYYYMMDD, whose order is the order of the strings.  NoDate   *)
(* is a null or absent date, NULL a null or absent value of another field. *)
(* A timestamp column (created_at) holds the clock.  Percentages are in    *)
(* hundredths of a percent.  The audit_logs table is append-only and read  *)
(* by no handler modelled here; its rows are left out, audit_down records  *)
(* whether the table refused the write of the last request.  A handler is  *)
(* one step, except in RaceSpec, where inflight holds the position of two  *)
(* requests served at the same time.                                       *)
(***************************************************************************)
EXTENDS Integers, Sequences, FiniteSets, TLC

VARIABLES now, customers, reviews, risk_scores, profiles, users, last, audit_down, inflight

vars == <<now, customers, reviews, risk_scores, profiles, users, last, audit_down, inflight>>

NULL == "NULL"
NoDate == 0
\* NaN: parseInt of a path parameter that is not a number, parseFloat of a
\* string that is not numeric.
NaN == -1
\* A numeric column that is null or absent, and one that holds a string
\* which is not a number.
NoNumber == -2
NotNumeric == -3

(***************************************************************************)
(* Bounds of the model.                                                    *)
(***************************************************************************)
MaxCustomers == 2
MaxReviews == 2
MaxInWindow == 3

(***************************************************************************)
(* JavaScript Date arithmetic (ECMAScript MakeDay / YearFromTime /         *)
(* MonthFromTime / DateFromTime on whole days).                            *)
(***************************************************************************)
\* The element of a set of one element.  An operator below that uses an
\* argument more than once binds it to a variable first ({e(x) : x \in {v}}),
\* so that the argument is evaluated a single time.
The(S) == CHOOSE x \in S : TRUE

\* Days from 0000-03-01 to the first day of the month m of the year y.
DaysBeforeMonth(y, m) ==
    LET yy  == IF m <= 2 THEN y - 1 ELSE y
        era == yy \div 400
        yoe == yy - era * 400
        mp  == (m + 9) % 12
        doy == (153 * mp + 2) \div 5
    IN  era * 146097 + yoe * 365 + yoe \div 4 - yoe \div 100 + doy

\* MakeDay(year, month, date): month in 1..12, date any integer; a date past
\* the end of the month runs on into the following month.
MakeDay(y, m, d) ==
    The({ DaysBeforeMonth(yv, mv) : yv \in {y}, mv \in {m} }) - 719468 + (d - 1)

\* The calendar fields of the day zz days after 0000-03-01.
CivilFromShifted(zz) ==
    LET era == zz \div 146097
        doe == zz - era * 146097
        yoe == (doe - doe \div 1460 + doe \div 36524 - doe \div 146096) \div 365
        doy == doe - (365 * yoe + yoe \div 4 - yoe \div 100)
        mp  == (5 * doy + 2) \div 153
        d   == doy - (153 * mp + 2) \div 5 + 1
        m   == IF mp < 10 THEN mp + 3 ELSE mp - 9
        y   == yoe + era * 400 + (IF m <= 2 THEN 1 ELSE 0)
    IN  [y |-> y, m |-> m, d |-> d]

\* The calendar fields of a Date: [y, m, d] with m in 1..12.
Civil(z) == The({ CivilFromShifted(zz) : zz \in {z + 719468} })

\* new Date(s) for a date string / ISO timestamp s; new Date(null) is the epoch.
NewDate(s) ==
    The({ IF sv = NoDate THEN 0
          ELSE MakeDay(sv \div 10000, (sv \div 100) % 100, sv % 100) : sv \in {s} })

\* date.toISOString().slice(0, 10)
ISODate(z) ==
    The({ c.y * 10000 + c.m * 100 + c.d : c \in {Civil(z)} })

\* toDateOnlyISO(d): new Date(d).toISOString().slice(0, 10), d a date string.
toDateOnlyISO(s) == ISODate(NewDate(s))

\* date.setMonth(date.getMonth() + k): the day of the month is kept and
\* overflows into the next month when the target month is shorter.
SetMonthPlus(z, k) ==
    The({ MakeDay(c.y + ((c.m - 1) + k) \div 12, (((c.m - 1) + k) % 12) + 1, c.d) :
          c \in {Civil(z)} })

\* Number of months a first review lies after the decision.
ReviewMonths == 6

(***************************************************************************)
(* Users, roles and the collections of the store.                          *)
(***************************************************************************)
CustomerUsers == {"u1", "u2"}
Employees == {"e1"}
Users == CustomerUsers \cup Employees

\* The role claim of the JWT that login signs for the user.
TokenRole(u) == IF u \in Employees THEN "EMPLOYEE" ELSE "CUSTOMER"

\* requireRole(...allowedRoles): the role of the token is one of the allowed.
requireRole(u, allowedRoles) == TokenRole(u) \in allowedRoles


\* The clock: the days on which requests arrive.
ClockDates == {20240131, 20240831}

\* Path parameters :id that requests carry.
IdInputs == (1 .. MaxCustomers + 1) \cup {NaN}

\* The contents the profiles table may have (no route writes it).
ProfileTables ==
    { [u \in Users |-> NULL], [u \in Users |-> TokenRole(u)] }

\* A variant of NewReview whose next_review_date is the scheduled date.
NewReviewDue(c, scheduled) ==
    [customer_id |-> c, scheduled_date |-> scheduled, status |-> "DRAFT",
     completed_date |-> NoDate, next_review_date |-> scheduled]

\* A row of reviews as the inserting routes write it.
NewReview(c, scheduled) ==
    [customer_id |-> c, scheduled_date |-> scheduled, status |-> "DRAFT",
     completed_date |-> NoDate, next_review_date |-> NoDate]

\* .from('reviews').select('id').eq('customer_id', c).limit(1) is not empty
HasReview(revs, c) == \E i \in 1 .. Len(revs) : revs[i].customer_id = c

\* .from('customers').select('id, decision_date').eq('status', 'APPROVED')
ApprovedIds(custs) == {i \in 1 .. Len(custs) : custs[i].status = "APPROVED"}

\* The orders in which the store may return the rows of a set of ids.
Orders(S) ==
    {o \in [1 .. Cardinality(S) -> S] : \A a, b \in 1 .. Cardinality(S) : a # b => o[a] # o[b]}

\* The request served last and its response, while the clock has not moved
\* since: user is the caller, op names the route, id is the path parameter,
\* body the request body where a property reads it, code the HTTP status,
\* fault whether a store call of the request failed.
Resp(u, op, code, id, fault) ==
    [user |-> u, op |-> op, code |-> code, id |-> id, fault |-> fault, body |-> << >>]

NoResp == Resp(NULL, "none", 0, 0, FALSE)

\* A variant of auditLog that lets the error of the write escape.
auditLogRethrowing(fails) == IF fails THEN "thrown" ELSE "returned"

\* auditLog(req, ...): the insert into audit_logs sits in try { } catch and
\* its result is not read, so the call returns whether or not the write fails
auditLog(fails) == "returned"

\* await auditLog(...); res.json(...) inside the try of a handler, whose
\* catch answers 500: the response after the audit call
Audited(resp, auditFails) ==
    IF auditLog(auditFails) = "thrown" THEN [resp EXCEPT !.code = 500] ELSE resp

\* Whether audit_logs refused writes while the last request was served.
AuditDown(auditFails) == audit_down' = auditFails

\* decision_date + 6 months as approve step 3 and POST /backfill compute it:
\* new Date(decision_date), setMonth(getMonth() + 6), toISOString().slice(0, 10)
ScheduledFromDecision(decision_date) ==
    ISODate(SetMonthPlus(NewDate(decision_date), ReviewMonths))

\* The same with the fallback of the approve loop and of the scheduler:
\* decision_date ? new Date(decision_date) : new Date()
ScheduledOrFromNow(decision_date, today) ==
    ISODate(SetMonthPlus(IF decision_date # NoDate THEN NewDate(decision_date) ELSE today,
                         ReviewMonths))

\* new Date(): the clock as a Date
Today == now \div 4

\* The clock at 00:00Z of the day d
Midnight(d) == 4 * NewDate(d)

\* The requests the server may be serving at the same time, and the record
\* of one that is not being served: pc is the position of the handler, kind
\* its route, todo the rows it has fetched and not yet looked at, created
\* the customers it has created a review for.
Requests == {1, 2}
Idle == [pc |-> "idle", kind |-> NULL, todo |-> << >>, created |-> {}]
NoneInFlight == [r \in Requests |-> Idle]

Init ==
    /\ now = Midnight(20240131)
    /\ customers = << >>
    /\ reviews = << >>
    /\ risk_scores = << >>
    /\ profiles = [u \in Users |-> NULL]
    /\ users = {}
    /\ audit_down = FALSE
    /\ inflight = NoneInFlight
    /\ last = NoResp

\* Time passes between requests.
Tick ==
    /\ \E d \in ClockDates : Midnight(d) > now /\ now' = Midnight(d)
    /\ last' = NoResp
    /\ UNCHANGED <<customers, reviews, risk_scores, profiles, users>>
    /\ audit_down' = FALSE
    /\ UNCHANGED inflight

(***************************************************************************)
(* utils/calculateRisk.js                                                  *)
(***************************************************************************)
\* parseFloat(v || 0) of a numeric column
ParseFloatOrZero(v) ==
    IF v = NoNumber THEN 0 ELSE IF v = NotNumeric THEN NaN ELSE v

\* a < b in JavaScript: every comparison with NaN is false
Lt(a, b) == a # NaN /\ a < b

\* Math.floor((Date.now() - birthDate.getTime()) / (365.25 days)), t the clock
\* in quarter days and 365.25 days being 1461 of them
AgeAt(date_of_birth, t) == (t - 4 * NewDate(date_of_birth)) \div 1461

\* A variant of ageFactor whose youngest bracket ends at 26.
ageFactorTo26(age) ==
    IF age >= 18 /\ age <= 26 THEN 10
    ELSE IF age >= 27 /\ age <= 40 THEN 5
    ELSE IF age >= 41 /\ age <= 60 THEN 3
    ELSE IF age > 60 THEN 8
    ELSE 0

ageFactor(age) ==
    IF age >= 18 /\ age <= 25 THEN 10
    ELSE IF age >= 26 /\ age <= 40 THEN 5
    ELSE IF age >= 41 /\ age <= 60 THEN 3
    ELSE IF age > 60 THEN 8
    ELSE 0

incomeFactor(income) ==
    IF Lt(income, 30000) THEN 10
    ELSE IF Lt(income, 60000) THEN 5
    ELSE IF Lt(income, 100000) THEN 3
    ELSE 1

employmentFactor(employment_status) ==
    CASE employment_status = "UNEMPLOYED" -> 10
      [] employment_status = "PART_TIME" -> 7
      [] employment_status = "SELF_EMPLOYED" -> 5
      [] employment_status = "FULL_TIME" -> 2
      [] OTHER -> 5

accountTypeFactor(account_type) ==
    CASE account_type = "INVESTMENT" -> 1
      [] account_type = "BUSINESS" -> 3
      [] account_type = "SAVINGS" -> 5
      [] account_type = "CHECKING" -> 7
      [] OTHER -> 5

depositFactor(deposit) ==
    IF Lt(deposit, 1000) THEN 5
    ELSE IF Lt(deposit, 10000) THEN 2
    ELSE IF Lt(deposit, 50000) THEN 1
    ELSE 0

\* A variant of riskLevel whose MEDIUM band starts at 22.
riskLevelFrom22(score) ==
    IF score >= 41 THEN "HIGH" ELSE IF score >= 22 THEN "MEDIUM" ELSE "LOW"

riskLevel(score) ==
    IF score >= 41 THEN "HIGH" ELSE IF score >= 21 THEN "MEDIUM" ELSE "LOW"

\* calculateRiskScore(customer), read at the clock t
calculateRiskScore(customer, t) ==
    LET age     == AgeAt(customer.date_of_birth, t)
        income  == ParseFloatOrZero(customer.annual_income)
        deposit == ParseFloatOrZero(customer.initial_deposit)
        score   == ageFactor(age) + incomeFactor(income)
                   + employmentFactor(customer.employment_status)
                   + accountTypeFactor(customer.account_type) + depositFactor(deposit)
    IN  [score |-> score, risk_level |-> riskLevel(score),
         age_factor |-> ageFactor(age), income_factor |-> incomeFactor(income),
         employment_factor |-> employmentFactor(customer.employment_status),
         account_type_factor |-> accountTypeFactor(customer.account_type),
         deposit_factor |-> depositFactor(deposit)]

\* A row of risk_scores: { customer_id, ...risk }
RiskRow(c, risk) ==
    [customer_id |-> c, score |-> risk.score, risk_level |-> risk.risk_level,
     age_factor |-> risk.age_factor, income_factor |-> risk.income_factor,
     employment_factor |-> risk.employment_factor,
     account_type_factor |-> risk.account_type_factor,
     deposit_factor |-> risk.deposit_factor]

\* A variant of Upsert that inserts whether or not the customer has a row.
UpsertAppending(rows, row) == Append(rows, row)

\* .upsert(row, { onConflict: ['customer_id'] })
Upsert(rows, row) ==
    IF \E i \in 1 .. Len(rows) : rows[i].customer_id = row.customer_id
    THEN [i \in 1 .. Len(rows) |->
             IF rows[i].customer_id = row.customer_id THEN row ELSE rows[i]]
    ELSE Append(rows, row)

(***************************************************************************)
(* routes/customers.js                                                     *)
(***************************************************************************)
\* Request bodies of create and update, as far as they name modelled columns.
EmptyBody == [f \in {} |-> NULL]
Bodies == { EmptyBody, [status |-> "APPROVED"] }

\* Reasons a reject request may carry (NULL: none given).
Reasons == {NULL, "too risky", "income proof missing"}

\* { ...row, ...body } restricted to the columns of the row
Merge(row, body) ==
    [f \in DOMAIN row |-> IF f \in DOMAIN body THEN body[f] ELSE row[f]]

\* .from('customers') ... .eq('id', id).single() finds a row
Exists(id) == id \in 1 .. Len(customers)

\* A row of customers none of whose columns is set.
BlankCustomer ==
    [user_id |-> NULL, status |-> NULL, decision_date |-> NoDate,
     approved_by |-> NULL, rejection_reason |-> NULL,
     date_of_birth |-> NoDate, annual_income |-> NoNumber, employment_status |-> NULL,
     account_type |-> NULL, initial_deposit |-> NoNumber, created_at |-> NoDate]

\* .from('risk_scores').select('*').eq('customer_id', c).single(): the row, if
\* exactly one row matches, as a sequence of at most one row
SingleRisk(rows, c) ==
    LET found == SelectSeq(rows, LAMBDA r : r.customer_id = c)
    IN  IF Len(found) = 1 THEN found ELSE << >>

\* formattedCustomer: the columns of the customer that the response carries,
\* with the risk score, level and breakdown (null: NoNumber, << >>)
formattedCustomer(id, customer, riskData) ==
    [id |-> id, status |-> customer.status,
     date_of_birth |-> customer.date_of_birth,
     annual_income |-> customer.annual_income,
     employment_status |-> customer.employment_status,
     account_type |-> customer.account_type,
     initial_deposit |-> customer.initial_deposit,
     risk_score |-> IF riskData = << >> THEN NoNumber ELSE riskData[1].score,
     risk_level |-> IF riskData = << >> THEN "LOW" ELSE riskData[1].risk_level,
     risk_breakdown |-> IF riskData = << >> THEN << >>
                        ELSE <<riskData[1].age_factor, riskData[1].income_factor,
                               riskData[1].employment_factor,
                               riskData[1].account_type_factor,
                               riskData[1].deposit_factor>>]

\* profile?.role || req.user.rawUser?.user_metadata?.role: the token carries
\* id, email and role and no rawUser, so the second operand is undefined
RoleOf(u) == profiles[u]

\* GET /api/customers/:id
GetById(u, id, fail) ==
    /\ IF id = NaN
       THEN last' = Resp(u, "getById", 400, id, FALSE)
       ELSE IF ~Exists(id) \/ fail
       THEN last' = Resp(u, "getById", 404, id, fail)
       ELSE IF RoleOf(u) = "CUSTOMER" /\ u # customers[id].user_id
       THEN last' = Resp(u, "getById", 403, id, FALSE)
       ELSE last' = [Resp(u, "getById", 200, id, FALSE) EXCEPT
                        !.body = formattedCustomer(id, customers[id],
                                                   SingleRisk(risk_scores, id))]
    /\ UNCHANGED <<now, customers, reviews, risk_scores, profiles, users>>
    /\ audit_down' = FALSE
    /\ UNCHANGED inflight

\* The store call of create that fails, if any: the insert of the customer,
\* or the insert of its risk score, whose error is not read.
CreateFaults == {"none", "insert", "risk"}

\* POST /api/customers
CreateApplication(u, body, fail, auditFails) ==
    /\ Len(customers) < MaxCustomers
    /\ IF ~requireRole(u, {"CUSTOMER"})
       THEN /\ last' = Resp(u, "create", 403, 0, FALSE)
            /\ UNCHANGED <<customers, risk_scores>>
       ELSE IF fail = "insert"
       THEN /\ last' = Audited(Resp(u, "create", 500, 0, TRUE), auditFails)
            /\ UNCHANGED <<customers, risk_scores>>
       ELSE    LET payload == Merge(Merge(BlankCustomer, body),
                                    [user_id |-> u, status |-> "DRAFT", created_at |-> now])
                   id      == Len(customers) + 1
                   risk    == calculateRiskScore(payload, now)
               IN  /\ customers' = Append(customers, payload)
                   /\ risk_scores' = IF fail = "risk" THEN risk_scores
                                     ELSE Append(risk_scores, RiskRow(id, risk))
                   /\ last' = Audited(Resp(u, "create", 201, id, fail = "risk"), auditFails)
    /\ UNCHANGED <<now, reviews, profiles, users>>
    /\ UNCHANGED inflight

\* POST /api/customers/:id/submit
Submit(u, id, fail, auditFails) ==
    /\ IF ~requireRole(u, {"CUSTOMER"})
       THEN /\ last' = Resp(u, "submit", 403, id, FALSE)
            /\ UNCHANGED customers
       ELSE IF ~Exists(id)
       THEN /\ last' = Resp(u, "submit", 404, id, FALSE)
            /\ UNCHANGED customers
       ELSE IF customers[id].user_id # u
       THEN /\ last' = Resp(u, "submit", 403, id, FALSE)
            /\ UNCHANGED customers
       ELSE IF fail
       THEN /\ last' = Resp(u, "submit", 500, id, TRUE)
            /\ UNCHANGED customers
       ELSE /\ customers' = [customers EXCEPT ![id].status = "PENDING"]
            /\ last' = Audited(Resp(u, "submit", 200, id, FALSE), auditFails)
    /\ UNCHANGED <<now, reviews, risk_scores, profiles, users>>
    /\ UNCHANGED inflight

\* bcrypt.hash(password, 10): a hash is known by the password it verifies
bcryptHash(password) == [bcrypt |-> password]

\* bcrypt.compare(password, hash)
bcryptCompare(password, hash) == hash.bcrypt = password

\* Passwords that requests carry.
Passwords == {"old-secret", "new-secret"}

\* updatePayload[f] is truthy
Supplied(body, f) == f \in DOMAIN body /\ body[f] \notin {NULL, ""}

\* delete updatePayload.password; delete updatePayload.currentPassword
StripPasswords(body) ==
    [f \in DOMAIN body \ {"password", "currentPassword"} |-> body[f]]

\* .from('users').select(...).eq('id', id): the rows of users with that id
UsersById(id) == {r \in users : r.id = id}

\* The store call of update that fails, if any: the fetch of the user, the
\* update of the password hash, or the update of the customer.
UpdateFaults == {"none", "user", "password", "update"}

\* The response of update, with the request body and the payload handed to
\* .from('customers').update(), << >> if the route did not get that far
UpdateResp(u, code, id, body, payload, fault) ==
    [Resp(u, "update", code, id, fault) EXCEPT
        !.body = [request |-> body, payload |-> payload]]

\* .from('customers').update(updatePayload).eq('id', id).select().single():
\* the store refuses a payload naming a column the table does not have
GenericUpdate(u, id, body, updatePayload, fail, auditFails) ==
    IF fail = "update" \/ ~(DOMAIN updatePayload \subseteq DOMAIN customers[id])
    THEN /\ last' = UpdateResp(u, 500, id, body, <<updatePayload>>, fail = "update")
         /\ UNCHANGED customers
    ELSE /\ customers' = [customers EXCEPT ![id] = Merge(@, updatePayload)]
         /\ last' = Audited(UpdateResp(u, 200, id, body, <<updatePayload>>, FALSE),
                          auditFails)

\* PUT /api/customers/:id
Update(u, id, body, fail, auditFails) ==
    /\ IF ~Exists(id)
       THEN /\ last' = UpdateResp(u, 404, id, body, << >>, FALSE)
            /\ UNCHANGED <<customers, users>>
       ELSE IF RoleOf(u) = "CUSTOMER" /\ customers[id].user_id # u
       THEN /\ last' = UpdateResp(u, 403, id, body, << >>, FALSE)
            /\ UNCHANGED <<customers, users>>
       ELSE IF Supplied(body, "password") /\ Supplied(body, "currentPassword")
       THEN IF UsersById(customers[id].user_id) = {} \/ fail = "user"
            THEN /\ last' = UpdateResp(u, 404, id, body, << >>, fail = "user")
                 /\ UNCHANGED <<customers, users>>
            ELSE LET user == CHOOSE r \in UsersById(customers[id].user_id) : TRUE
                 IN  IF ~bcryptCompare(body.currentPassword, user.password_hash)
                     THEN /\ last' = UpdateResp(u, 400, id, body, << >>, FALSE)
                          /\ UNCHANGED <<customers, users>>
                     ELSE IF fail = "password"
                     THEN /\ last' = UpdateResp(u, 500, id, body, << >>, TRUE)
                          /\ UNCHANGED <<customers, users>>
                     ELSE /\ users' = {IF r.id = user.id
                                       THEN [r EXCEPT !.password_hash = bcryptHash(body.password)]
                                       ELSE r : r \in users}
                          /\ GenericUpdate(u, id, body, StripPasswords(body), fail, auditFails)
       ELSE /\ GenericUpdate(u, id, body, body, fail, auditFails)
            /\ UNCHANGED users
    /\ UNCHANGED <<now, reviews, risk_scores, profiles, inflight>>

\* PUT /api/customers/:id/approve
ApproveApplication(u, id, fail, auditFails) ==
    /\ IF ~requireRole(u, {"EMPLOYEE"})
       THEN /\ last' = Resp(u, "approveApplication", 403, id, FALSE)
            /\ UNCHANGED customers
       ELSE IF ~Exists(id) \/ fail
       THEN /\ last' = Resp(u, "approveApplication", 500, id, fail)
            /\ UNCHANGED customers
       ELSE /\ customers' = [customers EXCEPT ![id].status = "APPROVED",
                                               ![id].decision_date = ISODate(Today)]
            /\ last' = Audited(Resp(u, "approveApplication", 200, id, FALSE), auditFails)
    /\ UNCHANGED <<now, reviews, risk_scores, profiles, users>>
    /\ UNCHANGED inflight

\* A variant of ReasonRefused that refuses only a missing reason.
ReasonRefusedIfMissing(reason) == reason = NULL \/ Len(reason) = 0

\* !reason || reason.length < 10
ReasonRefused(reason) == reason = NULL \/ Len(reason) = 0 \/ Len(reason) < 10

\* The response of reject, with the body { reason } of the request
RejectResp(u, code, id, reason, fault) ==
    [Resp(u, "reject", code, id, fault) EXCEPT !.body = [reason |-> reason]]

\* PUT /api/customers/:id/reject
Reject(u, id, reason, fail, auditFails) ==
    /\ IF ~requireRole(u, {"EMPLOYEE"})
       THEN /\ last' = RejectResp(u, 403, id, reason, FALSE)
            /\ UNCHANGED customers
       ELSE IF ReasonRefused(reason)
       THEN /\ last' = RejectResp(u, 400, id, reason, FALSE)
            /\ UNCHANGED customers
       ELSE IF ~Exists(id) \/ fail
       THEN /\ last' = RejectResp(u, 500, id, reason, fail)
            /\ UNCHANGED customers
       ELSE /\ customers' = [customers EXCEPT ![id].status = "REJECTED",
                                               ![id].decision_date = ISODate(Today),
                                               ![id].rejection_reason = reason]
            /\ last' = Audited(RejectResp(u, 200, id, reason, FALSE), auditFails)
    /\ UNCHANGED <<now, reviews, risk_scores, profiles, users>>
    /\ UNCHANGED inflight

\* POST /api/customers/:id/calculate-risk
CalculateRisk(u, id, fail, auditFails) ==
    /\ IF ~requireRole(u, {"CUSTOMER", "EMPLOYEE"})
       THEN /\ last' = Resp(u, "calculateRisk", 403, id, FALSE)
            /\ UNCHANGED risk_scores
       ELSE IF ~Exists(id)
       THEN /\ last' = Resp(u, "calculateRisk", 404, id, FALSE)
            /\ UNCHANGED risk_scores
       ELSE IF fail
       THEN /\ last' = Resp(u, "calculateRisk", 500, id, TRUE)
            /\ UNCHANGED risk_scores
       ELSE LET risk == calculateRiskScore(customers[id], now)
            IN  /\ risk_scores' = Upsert(risk_scores, RiskRow(id, risk))
                /\ last' = Audited(Resp(u, "calculateRisk", 200, id, FALSE), auditFails)
    /\ UNCHANGED <<now, customers, reviews, profiles, users>>
    /\ UNCHANGED inflight

(***************************************************************************)
(* routes/auth.js                                                          *)
(***************************************************************************)

\* Email addresses and account types that register requests carry
\* (NULL: none given).
Emails == {NULL, "a@x.org", "b@x.org"}

RegisterAccountTypes == {"SAVINGS", "EMPLOYEE"}

\* rawRole.toUpperCase() === 'EMPLOYEE' ? 'EMPLOYEE' : 'CUSTOMER'
RegisterRole(accountType) == IF accountType = "EMPLOYEE" THEN "EMPLOYEE" ELSE "CUSTOMER"

\* The ids the store may give a new row of users: one no row has; the ids of
\* employees and of customers are those their tokens name.
FreeIds(role) ==
    (IF role = "EMPLOYEE" THEN Employees ELSE CustomerUsers) \ {r.id : r \in users}

\* The store call of register that fails, if any: the check of the email,
\* the insert of the user, the insert of the customer, or the insert of the
\* customer and then the delete that rolls the user back.
RegisterFaults == {"none", "check", "user", "customer", "rollback"}

\* The response of register, with the email and password of the request and
\* the userId
RegisterResp(code, email, password, userId, fault) ==
    [Resp(NULL, "register", code, 0, fault) EXCEPT
        !.body = [email |-> email, password |-> password, userId |-> userId]]

\* A variant of EmailExists that looks among the customers only.
EmailExistsAmongCustomers(email) ==
    \E r \in users : r.email = email /\ r.role = "CUSTOMER"

\* .from('users').select('id').eq('email', email) returns a row
EmailExists(email) == \E r \in users : r.email = email

\* POST /api/auth/register
Register(email, password, accountType, fail, auditFails) ==
    /\ Len(customers) < MaxCustomers
    /\ IF email = NULL \/ password = NULL
       THEN /\ last' = RegisterResp(400, email, password, NULL, FALSE)
            /\ UNCHANGED <<customers, users>>
       ELSE IF fail = "check"
       THEN /\ last' = RegisterResp(500, email, password, NULL, TRUE)
            /\ UNCHANGED <<customers, users>>
       ELSE IF EmailExists(email)
       THEN /\ last' = RegisterResp(409, email, password, NULL, FALSE)
            /\ UNCHANGED <<customers, users>>
       ELSE IF fail = "user"
       THEN /\ last' = RegisterResp(500, email, password, NULL, TRUE)
            /\ UNCHANGED <<customers, users>>
       ELSE \E userId \in FreeIds(RegisterRole(accountType)) :
            LET role == RegisterRole(accountType)
                user == [id |-> userId, email |-> email,
                         password_hash |-> bcryptHash(password), role |-> role]
            IN  IF role = "EMPLOYEE"
                THEN /\ users' = users \cup {user}
                     /\ last' = Audited(RegisterResp(201, email, password, userId, FALSE), auditFails)
                     /\ UNCHANGED customers
                ELSE IF fail \in {"customer", "rollback"}
                THEN /\ users' = IF fail = "rollback" THEN users \cup {user} ELSE users
                     /\ last' = RegisterResp(500, email, password, userId, TRUE)
                     /\ UNCHANGED customers
                ELSE /\ users' = users \cup {user}
                     /\ customers' = Append(customers,
                            Merge(BlankCustomer, [user_id |-> userId, status |-> "DRAFT",
                                                  account_type |-> accountType,
                                                  created_at |-> now]))
                     /\ last' = Audited(RegisterResp(201, email, password, userId, FALSE), auditFails)
    /\ UNCHANGED <<now, reviews, risk_scores, profiles>>
    /\ UNCHANGED inflight

(***************************************************************************)
(* routes/reviews.js                                                       *)
(***************************************************************************)
\* A variant of ApproveLoop that scans nobody.
ApproveLoopNoScan(order, custs, revs, customerId, today) == revs

\* The loop of approve step 4 over the approved customers, in the order the
\* store returned them: the approved customer itself is skipped, every other
\* one without a review row gets one.
RECURSIVE ApproveLoop(_, _, _, _, _)
ApproveLoop(order, custs, revs, customerId, today) ==
    IF order = << >> THEN revs
    ELSE LET c == Head(order)
             next == IF c = customerId THEN revs
                     ELSE IF HasReview(revs, c) THEN revs
                     ELSE Append(revs, NewReview(c, ScheduledOrFromNow(custs[c].decision_date, today)))
         IN  ApproveLoop(Tail(order), custs, next, customerId, today)

\* The loop of POST /backfill: every approved customer without a review row
\* gets one, scheduled from new Date(decision_date).
RECURSIVE BackfillLoop(_, _, _)
BackfillLoop(order, custs, revs) ==
    IF order = << >> THEN revs
    ELSE LET c == Head(order)
             next == IF HasReview(revs, c) THEN revs
                     ELSE Append(revs, NewReview(c, ScheduledFromDecision(custs[c].decision_date)))
         IN  BackfillLoop(Tail(order), custs, next)

\* The store call of a request that fails, if any.
ApproveFaults == {"none", "update", "existing", "insert", "customers", "loop"}
BackfillFaults == {"none", "customers", "loop"}
CompleteFaults == {"none", "update", "insert"}
SchedulerFaults == {"none", "customers", "loop"}

\* POST /api/reviews/customers/:id/approve.  order is the order in which the
\* store returns the approved customers; a failing store call of the loop
\* strikes at the customer after the first k of them.
Approve(u, id, fail) ==
    /\ IF ~requireRole(u, {"EMPLOYEE"})
       THEN /\ last' = Resp(u, "approve", 403, id, FALSE)
            /\ UNCHANGED <<customers, reviews>>
       ELSE IF id = NaN
       THEN /\ last' = Resp(u, "approve", 400, id, FALSE)
            /\ UNCHANGED <<customers, reviews>>
       ELSE IF ~Exists(id) \/ fail = "update"
       THEN /\ last' = Resp(u, "approve", 500, id, fail = "update")
            /\ UNCHANGED <<customers, reviews>>
       ELSE LET custs1 == [customers EXCEPT ![id].status = "APPROVED",
                                            ![id].decision_date = ISODate(Today),
                                            ![id].approved_by = u]
                first  == ~HasReview(reviews, id)
                revs1  == IF first
                          THEN Append(reviews,
                                      NewReview(id, ScheduledFromDecision(custs1[id].decision_date)))
                          ELSE reviews
            IN  /\ customers' = custs1
                /\ CASE fail = "existing" ->
                          /\ reviews' = reviews
                          /\ last' = Resp(u, "approve", 500, id, TRUE)
                     [] fail = "insert" ->
                          /\ first
                          /\ reviews' = reviews
                          /\ last' = Resp(u, "approve", 500, id, TRUE)
                     [] fail = "customers" ->
                          /\ reviews' = revs1
                          /\ last' = Resp(u, "approve", 500, id, TRUE)
                     [] fail = "loop" ->
                          \E order \in Orders(ApprovedIds(custs1)) :
                          \E k \in 0 .. Len(order) - 1 :
                              /\ order[k + 1] # id
                              /\ reviews' = ApproveLoop(SubSeq(order, 1, k), custs1, revs1, id, Today)
                              /\ last' = Resp(u, "approve", 500, id, TRUE)
                     [] fail = "none" ->
                          \E order \in Orders(ApprovedIds(custs1)) :
                              /\ reviews' = ApproveLoop(order, custs1, revs1, id, Today)
                              /\ last' = Resp(u, "approve", 200, id, FALSE)
    /\ Len(reviews') <= MaxReviews
    /\ UNCHANGED <<now, risk_scores, profiles, users>>
    /\ audit_down' = FALSE
    /\ UNCHANGED inflight

\* POST /api/reviews/backfill
Backfill(u, fail) ==
    /\ IF ~requireRole(u, {"EMPLOYEE"})
       THEN /\ last' = Resp(u, "backfill", 403, 0, FALSE)
            /\ UNCHANGED reviews
       ELSE CASE fail = "customers" ->
                   /\ last' = Resp(u, "backfill", 500, 0, TRUE)
                   /\ UNCHANGED reviews
              [] fail = "loop" ->
                   \E order \in Orders(ApprovedIds(customers)) : \E k \in 0 .. Len(order) - 1 :
                       /\ reviews' = BackfillLoop(SubSeq(order, 1, k), customers, reviews)
                       /\ last' = Resp(u, "backfill", 500, 0, TRUE)
              [] fail = "none" ->
                   \E order \in Orders(ApprovedIds(customers)) :
                       /\ reviews' = BackfillLoop(order, customers, reviews)
                       /\ last' = Resp(u, "backfill", 200, 0, FALSE)
    /\ Len(reviews') <= MaxReviews
    /\ UNCHANGED <<now, customers, risk_scores, profiles, users>>
    /\ audit_down' = FALSE
    /\ UNCHANGED inflight

\* Path parameters :id of PUT /:id/complete, and the dates its body may hold.
ReviewIdInputs == (1 .. MaxReviews + 1) \cup {NaN}
CompletedDateInputs == {NoDate, 20240901}
NextReviewDateInputs == {NoDate, 20250301}

\* A variant of Omitted that finds every date given.
NeverOmitted(date) == FALSE

\* !completedDate
Omitted(date) == date = NoDate

\* The response of complete, with the body { completedDate, nextReviewDate }
CompleteResp(u, code, id, completedDate, nextReviewDate, fault) ==
    [Resp(u, "complete", code, id, fault) EXCEPT
        !.body = [completedDate |-> completedDate, nextReviewDate |-> nextReviewDate]]

\* PUT /api/reviews/:id/complete
Complete(u, id, completedDate, nextReviewDate, fail, auditFails) ==
    /\ IF ~requireRole(u, {"EMPLOYEE"})
       THEN /\ last' = CompleteResp(u, 403, id, completedDate, nextReviewDate, FALSE)
            /\ UNCHANGED reviews
       ELSE IF Omitted(completedDate)
       THEN /\ last' = CompleteResp(u, 400, id, completedDate, nextReviewDate, FALSE)
            /\ UNCHANGED reviews
       ELSE IF id \notin 1 .. Len(reviews) \/ fail = "update"
       THEN /\ last' = CompleteResp(u, 404, id, completedDate, nextReviewDate, fail = "update")
            /\ UNCHANGED reviews
       ELSE LET done == [reviews EXCEPT
                           ![id].completed_date = toDateOnlyISO(completedDate),
                           ![id].next_review_date =
                               IF nextReviewDate # NoDate THEN toDateOnlyISO(nextReviewDate)
                               ELSE NoDate,
                           ![id].status = "COMPLETED"]
            IN  IF auditLog(auditFails) = "thrown"
                THEN /\ reviews' = done
                     /\ last' = CompleteResp(u, 500, id, completedDate, nextReviewDate, FALSE)
                ELSE IF nextReviewDate # NoDate /\ fail # "insert"
                THEN /\ reviews' = Append(done, NewReview(done[id].customer_id,
                                                          toDateOnlyISO(nextReviewDate)))
                     /\ last' = CompleteResp(u, 200, id, completedDate, nextReviewDate, FALSE)
                ELSE \* no next review asked for, or its insert fails, which
                     \* is logged and not reported
                     /\ reviews' = done
                     /\ last' = CompleteResp(u, 200, id, completedDate, nextReviewDate,
                                             nextReviewDate # NoDate)
    /\ Len(reviews') <= MaxReviews
    /\ UNCHANGED <<now, customers, risk_scores, profiles, users>>
    /\ UNCHANGED inflight

\* The loop of the scheduler run.  The error of the existence query is not
\* read (a failed query counts as "no future review"), the error of the
\* insert is logged and the loop goes on.
RECURSIVE SchedulerLoop(_, _, _, _, _, _)
SchedulerLoop(order, custs, revs, today, queryFails, insertFails) ==
    IF order = << >> THEN revs
    ELSE LET c == Head(order)
             scheduled_date == ScheduledOrFromNow(custs[c].decision_date, today)
             existing == /\ c \notin queryFails
                         /\ \E i \in 1 .. Len(revs) :
                               /\ revs[i].customer_id = c
                               /\ revs[i].scheduled_date >= ISODate(today)
             next == IF ~existing /\ c \notin insertFails
                     THEN Append(revs, NewReview(c, scheduled_date))
                     ELSE revs
         IN  SchedulerLoop(Tail(order), custs, next, today, queryFails, insertFails)

\* POST /api/reviews/admin/run-review-scheduler
RunScheduler(u, fail) ==
    /\ IF ~requireRole(u, {"EMPLOYEE"})
       THEN /\ last' = Resp(u, "scheduler", 403, 0, FALSE)
            /\ UNCHANGED reviews
       ELSE CASE fail = "customers" ->
                   /\ last' = Resp(u, "scheduler", 500, 0, TRUE)
                   /\ UNCHANGED reviews
              [] fail = "loop" ->
                   \E order \in Orders(ApprovedIds(customers)) :
                   \E queryFails, insertFails \in SUBSET ApprovedIds(customers) :
                       /\ queryFails \cup insertFails # {}
                       /\ reviews' = SchedulerLoop(order, customers, reviews, Today,
                                                   queryFails, insertFails)
                       /\ last' = Resp(u, "scheduler", 200, 0, TRUE)
              [] fail = "none" ->
                   \E order \in Orders(ApprovedIds(customers)) :
                       /\ reviews' = SchedulerLoop(order, customers, reviews, Today, {}, {})
                       /\ last' = Resp(u, "scheduler", 200, 0, FALSE)
    /\ Len(reviews') <= MaxReviews
    /\ UNCHANGED <<now, customers, risk_scores, profiles, users>>
    /\ audit_down' = FALSE
    /\ UNCHANGED inflight

\* A variant of InsertReview that inserts only for a customer who has no
\* review by the time of the insert.
InsertReviewIfNone(revs, row) ==
    IF HasReview(revs, row.customer_id) THEN revs ELSE Append(revs, row)

\* .from('reviews').insert({ customer_id, scheduled_date, status: 'DRAFT' })
InsertReview(revs, row) == Append(revs, row)

\* The routes whose loop checks each approved customer for a review and
\* inserts one, served step by step so that two requests may interleave.
LoopKinds == {"backfill", "scheduler"}

\* The handler fetches the approved customers: id and decision_date of each,
\* in the order the store returns them.
BeginLoop(r, kind) ==
    /\ inflight[r].pc = "idle"
    /\ \E order \in Orders(ApprovedIds(customers)) :
          inflight' = [inflight EXCEPT ![r] =
              [pc |-> "check", kind |-> kind, created |-> {},
               todo |-> [i \in 1 .. Len(order) |->
                           [id |-> order[i],
                            decision_date |-> customers[order[i]].decision_date]]]]
    /\ UNCHANGED <<now, customers, reviews, risk_scores, profiles, users, last, audit_down>>

\* The handler asks whether the next customer has a review (the scheduler:
\* one scheduled today or later) and goes on to the insert if there is none.
CheckReview(r) ==
    /\ inflight[r].pc = "check"
    /\ inflight[r].todo # << >>
    /\ LET c == Head(inflight[r].todo)
           existing ==
               IF inflight[r].kind = "backfill" THEN HasReview(reviews, c.id)
               ELSE \E i \in 1 .. Len(reviews) :
                       /\ reviews[i].customer_id = c.id
                       /\ reviews[i].scheduled_date >= ISODate(Today)
       IN  inflight' = [inflight EXCEPT ![r] =
               IF existing THEN [@ EXCEPT !.todo = Tail(@)] ELSE [@ EXCEPT !.pc = "insert"]]
    /\ UNCHANGED <<now, customers, reviews, risk_scores, profiles, users, last, audit_down>>

\* The handler inserts the review of the customer it has checked.
InsertChecked(r) ==
    /\ inflight[r].pc = "insert"
    /\ LET c == Head(inflight[r].todo)
           scheduled_date ==
               IF inflight[r].kind = "backfill" THEN ScheduledFromDecision(c.decision_date)
               ELSE ScheduledOrFromNow(c.decision_date, Today)
       IN  /\ reviews' = InsertReview(reviews, NewReview(c.id, scheduled_date))
           /\ inflight' = [inflight EXCEPT ![r] =
                  [@ EXCEPT !.pc = "check", !.todo = Tail(@),
                            !.created = @ \cup {c.id}]]
    /\ UNCHANGED <<now, customers, risk_scores, profiles, users, last, audit_down>>

\* The loop is over and the handler answers.
EndLoop(r) ==
    /\ inflight[r].pc = "check"
    /\ inflight[r].todo = << >>
    /\ inflight' = [inflight EXCEPT ![r].pc = "done"]
    /\ last' = Resp("e1", inflight[r].kind, 200, 0, FALSE)
    /\ audit_down' = FALSE
    /\ UNCHANGED <<now, customers, reviews, risk_scores, profiles, users>>

(***************************************************************************)
(* routes/dashboard.js                                                     *)
(***************************************************************************)
\* computeRiskLevelFromScore(score): null or undefined is NoNumber
computeRiskLevelFromScore(score) ==
    IF score = NoNumber THEN "UNKNOWN"
    ELSE IF score >= 70 THEN "HIGH"
    ELSE IF score >= 40 THEN "MEDIUM"
    ELSE "LOW"

\* Math.round((count / total) * 10000) / 100, in hundredths: Math.round
\* rounds to the nearest integer and a half upwards.  The caller passes a
\* positive total.
Percent(count, total) == (20000 * count + total) \div (2 * total)

\* A variant of approvalRate that cuts the rate off after two decimals.
approvalRateTruncated(total, approved) ==
    IF total = 0 THEN 0 ELSE (10000 * approved) \div total

\* totalApplications === 0 ? 0 : Math.round((approved / totalApplications) * 10000) / 100
approvalRate(total, approved) ==
    IF total = 0 THEN 0 ELSE Percent(approved, total)

\* dayjs(z).subtract(k, 'month'): the day of the month is kept, or becomes
\* the last day of the target month when that month is shorter.
dayjsSubtractMonths(z, k) ==
    The({ The({ IF MakeDay(t.y, t.m, c.d) < MakeDay(t.y, t.m + 1, 1)
                THEN MakeDay(t.y, t.m, c.d)
                ELSE MakeDay(t.y, t.m + 1, 1) - 1 :
                t \in {[y |-> c.y + ((c.m - 1) - k) \div 12, m |-> (((c.m - 1) - k) % 12) + 1]} }) :
          c \in {Civil(z)} })

\* Query parameters from and to: absent or not a date (NoDate), or a date.
WindowInputs == {NoDate, 20240101, 20240831}

\* The store calls of the statistics route that may fail.
StatisticsFaults == {"none", "customers", "risk", "overdue"}

\* from: parseDateSafe(req.query.from) || now.subtract(6, 'month').startOf('day')
WindowFrom(from) ==
    IF from # NoDate THEN Midnight(from) ELSE 4 * dayjsSubtractMonths(Today, 6)

\* to: parseDateSafe(req.query.to) || now.endOf('day'); parseDateSafe gives
\* the start of the day named
WindowTo(to) ==
    IF to # NoDate THEN Midnight(to) ELSE 4 * Today + 3

\* .from('customers').gte('created_at', from).lte('created_at', to): the ids
\* of the rows in the window (a null created_at matches neither bound)
InWindow(from, to) ==
    { i \in 1 .. Len(customers) :
        /\ customers[i].created_at # NoDate
        /\ WindowFrom(from) <= customers[i].created_at
        /\ customers[i].created_at <= WindowTo(to) }

\* rows.filter(r => (r.status || '').toUpperCase() === status).length; the
\* routes write statuses in upper case
CountStatus(ids, status) == Cardinality({ i \in ids : customers[i].status = status })

\* latestByCustomer[id]: the score of the risk row kept for the customer, or
\* NoNumber.  The routes write no calculated_at, so the first row the store
\* returns for the customer is kept; the store holds at most one.
LatestScore(rows, c) ==
    LET found == SelectSeq(rows, LAMBDA r : r.customer_id = c)
    IN  IF found = << >> THEN NoNumber ELSE found[1].score

\* One element of riskDetails
RiskDetail(c, score) ==
    [customer_id |-> c, risk_score |-> score, risk_level |-> computeRiskLevelFromScore(score)]

\* riskDetails: one element per customer of the window, by ascending id
RECURSIVE RiskDetails(_, _)
RiskDetails(ids, rows) ==
    IF ids = {} THEN << >>
    ELSE LET c == CHOOSE i \in ids : \A j \in ids : i <= j
         IN  <<RiskDetail(c, LatestScore(rows, c))>> \o RiskDetails(ids \ {c}, rows)

\* One bucket of riskDistribution: { count, percent }, percent in hundredths
Bucket(details, level, total) ==
    LET count == Len(SelectSeq(details, LAMBDA d : d.risk_level = level))
    IN  [count |-> count, percent |-> Percent(count, IF total = 0 THEN 1 ELSE total)]

\* riskDistribution; when no customer is in the window or the fetch of
\* risk_scores fails, the defaults stay: every count and percent 0
RiskDistribution(details, total, fetched) ==
    [level \in {"LOW", "MEDIUM", "HIGH", "UNKNOWN"} |->
        IF fetched THEN Bucket(details, level, total) ELSE [count |-> 0, percent |-> 0]]

\* .from('reviews').lt('next_review_date', nowISO).neq('status', 'COMPLETED')
OverdueReviews ==
    Cardinality({ i \in 1 .. Len(reviews) :
                    /\ reviews[i].next_review_date # NoDate
                    /\ Midnight(reviews[i].next_review_date) < now
                    /\ reviews[i].status # "COMPLETED" })

\* The result object of the statistics route, without trendsData, from and
\* to, which no property below reads.
StatisticsResult(from, to, fail) ==
    LET ids      == InWindow(from, to)
        total    == Cardinality(ids)
        approved == CountStatus(ids, "APPROVED")
        rejected == CountStatus(ids, "REJECTED")
        fetched  == ids # {} /\ fail # "risk"
        details  == IF fetched THEN RiskDetails(ids, risk_scores) ELSE << >>
    IN  [totalApplications |-> total,
         pending |-> CountStatus(ids, "PENDING"),
         approved |-> approved,
         rejected |-> rejected,
         approvalRate |-> approvalRate(total, approved),
         riskDistribution |-> RiskDistribution(details, total, fetched),
         riskDetails |-> details,
         overdueReviews |-> IF fail = "overdue" THEN 0 ELSE OverdueReviews]

\* A variant of StatisticsWrites that clears the scores it has read.
StatisticsWritesScores ==
    /\ risk_scores' = << >>
    /\ UNCHANGED <<now, customers, reviews, profiles, users, inflight>>

\* What the statistics route writes to the store: nothing
StatisticsWrites ==
    UNCHANGED <<now, customers, reviews, risk_scores, profiles, users, inflight>>

\* GET /api/dashboard/statistics?from=&to=
Statistics(u, from, to, fail, auditFails) ==
    /\ IF ~requireRole(u, {"EMPLOYEE"})
       THEN last' = Resp(u, "statistics", 403, 0, FALSE)
       ELSE IF fail = "customers"
       THEN last' = Audited(Resp(u, "statistics", 500, 0, TRUE), auditFails)
       ELSE last' = Audited([Resp(u, "statistics", 200, 0, fail # "none")
                                EXCEPT !.body = StatisticsResult(from, to, fail)], auditFails)
    /\ StatisticsWrites

(***************************************************************************)
(* The specification: requests arrive one at a time and each handler runs  *)
(* to its response before the next request is served.                      *)
(***************************************************************************)
\* The requests the specification follows are well formed: the customer
\* u1 calls the customer routes, the employee e1 the employee routes, each
\* on a row that exists; the only store call that fails is the insert of
\* the next review in complete.  Submit and reject are followed by
\* LifecycleSpec.
Next ==
    \/ Tick
    \/ \E body \in Bodies : CreateApplication("u1", body, "none", FALSE) /\ AuditDown(FALSE)
    \/ \E id \in 1 .. Len(customers), body \in Bodies : Update("u1", id, body, "none", FALSE) /\ AuditDown(FALSE)
    \/ \E id \in 1 .. Len(customers) : ApproveApplication("e1", id, FALSE, FALSE) /\ AuditDown(FALSE)
    \/ \E id \in 1 .. Len(customers) : CalculateRisk("e1", id, FALSE, FALSE) /\ AuditDown(FALSE)
    \/ \E id \in 1 .. Len(customers) : Approve("e1", id, "none")
    \/ Backfill("e1", "none")
    \/ \E id \in 1 .. Len(reviews), completedDate \in CompletedDateInputs \ {NoDate},
          nextReviewDate \in NextReviewDateInputs, fail \in {"none", "insert"} :
          Complete("e1", id, completedDate, nextReviewDate, fail, FALSE) /\ AuditDown(FALSE)
    \/ RunScheduler("e1", "none")

Spec == Init /\ [][Next]_vars

\* The application lifecycle alone, with every caller and every path
\* parameter, no store call failing.
LifecycleNext ==
    \/ \E u \in Users, body \in Bodies : CreateApplication(u, body, "none", FALSE) /\ AuditDown(FALSE)
    \/ \E u \in Users, id \in IdInputs : Submit(u, id, FALSE, FALSE) /\ AuditDown(FALSE)
    \/ \E u \in Users, id \in IdInputs, body \in Bodies : Update(u, id, body, "none", FALSE) /\ AuditDown(FALSE)
    \/ \E u \in Users, id \in IdInputs : ApproveApplication(u, id, FALSE, FALSE) /\ AuditDown(FALSE)
    \/ \E u \in Users, id \in IdInputs, reason \in Reasons : Reject(u, id, reason, FALSE, FALSE) /\ AuditDown(FALSE)
    \/ \E u \in Users, id \in IdInputs : GetById(u, id, FALSE)

LifecycleInit ==
    /\ now = Midnight(20240131)
    /\ customers = << >>
    /\ reviews = << >>
    /\ risk_scores = << >>
    /\ profiles \in ProfileTables
    /\ users = {}
    /\ audit_down = FALSE
    /\ inflight = NoneInFlight
    /\ last = NoResp

LifecycleSpec == LifecycleInit /\ [][LifecycleNext]_vars

\* The same requests under fair scheduling: the clock moves on, and the
\* backfill and the scheduler are run again and again (e.g. on a timer).
LiveSpec ==
    /\ Spec
    /\ WF_vars(Tick)
    /\ WF_vars(Backfill("e1", "none"))
    /\ WF_vars(RunScheduler("e1", "none"))

\* Sequences over S of length at most n
SeqsUpTo(S, n) == UNION {[1 .. k -> S] : k \in 0 .. n}

\* Rows of customers as the routes leave them: submitted, approved by the
\* review router, and set to APPROVED by an update.
SampleCustomers ==
    { Merge(BlankCustomer, [user_id |-> "u1", status |-> "PENDING",
                            created_at |-> Midnight(20240131)]),
      Merge(BlankCustomer, [user_id |-> "u1", status |-> "APPROVED",
                            decision_date |-> 20240131, approved_by |-> "e1",
                            created_at |-> Midnight(20240131)]),
      Merge(BlankCustomer, [user_id |-> "u2", status |-> "APPROVED",
                            created_at |-> Midnight(20240131)]) }

\* The risk scores that create has stored for the customers
ScoresAtCreation(custs, t) ==
    [i \in 1 .. Len(custs) |-> RiskRow(i, calculateRiskScore(custs[i], t))]

\* The review routes that ensure a review, from any store of sample
\* customers any of whom has a first review, for an employee and every
\* customer of the store, with every row order and every store fault.
ReviewInit ==
    /\ now \in {Midnight(d) : d \in ClockDates}
    /\ customers \in SeqsUpTo(SampleCustomers, MaxCustomers)
    /\ \E reviewed \in SUBSET (1 .. Len(customers)) :
          reviews = SelectSeq([c \in 1 .. Len(customers) |-> NewReview(c, 20240731)],
                              LAMBDA r : r.customer_id \in reviewed)
    /\ Len(reviews) <= MaxReviews
    /\ risk_scores = ScoresAtCreation(customers, now)
    /\ profiles = [u \in Users |-> NULL]
    /\ users = {}
    /\ audit_down = FALSE
    /\ inflight = NoneInFlight
    /\ last = NoResp

ReviewNext ==
    \/ \E id \in 1 .. Len(customers), fail \in ApproveFaults : Approve("e1", id, fail)
    \/ \E fail \in BackfillFaults : Backfill("e1", fail)

ReviewSpec == ReviewInit /\ [][ReviewNext]_vars

\* Complete alone, from any table of sample reviews of one approved
\* customer, with every caller, path parameter, body and store fault.
SampleReviews ==
    { NewReview(1, 20240731),
      [NewReview(1, 20240731) EXCEPT !.status = "COMPLETED", !.completed_date = 20240801] }

CompleteInit ==
    /\ now \in {Midnight(d) : d \in ClockDates}
    /\ customers = << Merge(BlankCustomer, [user_id |-> "u1", status |-> "APPROVED",
                                            decision_date |-> 20240131, approved_by |-> "e1",
                                            created_at |-> Midnight(20240131)]) >>
    /\ reviews \in SeqsUpTo(SampleReviews, MaxReviews)
    /\ risk_scores = ScoresAtCreation(customers, now)
    /\ profiles = [u \in Users |-> NULL]
    /\ users = {}
    /\ audit_down = FALSE
    /\ inflight = NoneInFlight
    /\ last = NoResp

CompleteNext ==
    \E u \in Users, id \in ReviewIdInputs, completedDate \in CompletedDateInputs,
       nextReviewDate \in NextReviewDateInputs, fail \in CompleteFaults :
        Complete(u, id, completedDate, nextReviewDate, fail, FALSE) /\ AuditDown(FALSE)

CompleteSpec == CompleteInit /\ [][CompleteNext]_vars

\* The scorer applied to one customer whose columns are drawn from values
\* on both sides of every threshold, at midnight and at 18:00Z.
BirthDates ==
    {NoDate, 20100615, 20060131, 20040115, 19980201, 19980130, 19840101, 19740115,
     19630131, 19500101}
Incomes == {NoNumber, NotNumeric, 0, 20000, 29999, 30000, 59999, 60000, 80000, 99999, 100000}
EmploymentStatuses == {"UNEMPLOYED", "PART_TIME", "SELF_EMPLOYED", "FULL_TIME", NULL}
AccountTypes == {"INVESTMENT", "BUSINESS", "SAVINGS", "CHECKING", NULL}
Deposits == {NoNumber, NotNumeric, 500, 999, 1000, 9999, 10000, 20000, 49999, 50000}

RiskInit ==
    /\ now \in {Midnight(20240131), Midnight(20240131) + 3}
    /\ \E dob \in BirthDates, income \in Incomes, employment \in EmploymentStatuses,
          account \in AccountTypes, deposit \in Deposits :
          customers = << Merge(BlankCustomer,
                               [user_id |-> "u1", status |-> "DRAFT", date_of_birth |-> dob,
                                annual_income |-> income, employment_status |-> employment,
                                account_type |-> account, initial_deposit |-> deposit,
                                created_at |-> now]) >>
    /\ reviews = << >>
    /\ risk_scores = ScoresAtCreation(customers, now)
    /\ profiles = [u \in Users |-> NULL]
    /\ users = {}
    /\ audit_down = FALSE
    /\ inflight = NoneInFlight
    /\ last = NoResp

RiskNext == CalculateRisk("e1", 1, FALSE, FALSE) /\ AuditDown(FALSE)

RiskSpec == RiskInit /\ [][RiskNext]_vars

\* The scorer applied again and again to the same customer while time passes.
RiskClockNext == RiskNext \/ Tick

RiskClockSpec == RiskInit /\ [][RiskClockNext]_vars

\* Reject alone, from every table of sample customers, with every caller,
\* path parameter and reason, the update failing or not.
ReasonInputs == Reasons \cup {"", "incomplete"}

RejectInit ==
    /\ now = Midnight(20240131)
    /\ customers \in SeqsUpTo(SampleCustomers, MaxCustomers)
    /\ reviews = << >>
    /\ risk_scores = << >>
    /\ profiles = [u \in Users |-> NULL]
    /\ users = {}
    /\ audit_down = FALSE
    /\ inflight = NoneInFlight
    /\ last = NoResp

RejectNext ==
    \E u \in Users, id \in IdInputs, reason \in ReasonInputs, fail \in BOOLEAN :
        Reject(u, id, reason, fail, FALSE) /\ AuditDown(FALSE)

RejectSpec == RejectInit /\ [][RejectNext]_vars

\* Accounts: registration, and updates that carry password fields, from the
\* empty store, every store call failing or not.
PasswordBodies ==
    { EmptyBody, [password |-> "new-secret"],
      [currentPassword |-> "old-secret"],
      [password |-> "new-secret", currentPassword |-> "old-secret"],
      [password |-> "new-secret", currentPassword |-> "new-secret"] }

AccountNext ==
    \/ \E email \in Emails, password \in {NULL, "old-secret"},
          accountType \in RegisterAccountTypes, fail \in RegisterFaults :
          Register(email, password, accountType, fail, FALSE) /\ AuditDown(FALSE)
    \/ \E u \in Users, id \in IdInputs, body \in PasswordBodies, fail \in UpdateFaults :
          Update(u, id, body, fail, FALSE) /\ AuditDown(FALSE)

AccountSpec == Init /\ [][AccountNext]_vars

\* Every route that writes an audit record, serving one request from a
\* store of at most one sample customer with or without a first review and
\* with or without a registered user, audit_logs refusing the write or not.
AuditInit ==
    /\ now = Midnight(20240131)
    /\ customers \in SeqsUpTo(SampleCustomers, 1)
    /\ reviews \in {r \in SeqsUpTo({NewReview(1, 20240731)}, 1) : Len(r) <= Len(customers)}
    /\ risk_scores = ScoresAtCreation(customers, now)
    /\ profiles \in ProfileTables
    /\ users \in { {}, {[id |-> "u2", email |-> "a@x.org",
                          password_hash |-> bcryptHash("old-secret"), role |-> "CUSTOMER"]} }
    /\ audit_down = FALSE
    /\ inflight = NoneInFlight
    /\ last = NoResp

AuditNext ==
    /\ last = NoResp
    /\ \/ \E a \in BOOLEAN, email \in Emails, accountType \in RegisterAccountTypes,
             fail \in RegisterFaults :
             Register(email, "old-secret", accountType, fail, a) /\ AuditDown(a)
       \/ \E a \in BOOLEAN, u \in Users, body \in Bodies, fail \in CreateFaults :
             CreateApplication(u, body, fail, a) /\ AuditDown(a)
       \/ \E a \in BOOLEAN, u \in Users, id \in IdInputs, fail \in BOOLEAN :
             Submit(u, id, fail, a) /\ AuditDown(a)
       \/ \E a \in BOOLEAN, u \in Users, id \in IdInputs, body \in Bodies, fail \in UpdateFaults :
             Update(u, id, body, fail, a) /\ AuditDown(a)
       \/ \E a \in BOOLEAN, u \in Users, id \in IdInputs, fail \in BOOLEAN :
             ApproveApplication(u, id, fail, a) /\ AuditDown(a)
       \/ \E a \in BOOLEAN, u \in Users, id \in IdInputs, reason \in Reasons, fail \in BOOLEAN :
             Reject(u, id, reason, fail, a) /\ AuditDown(a)
       \/ \E a \in BOOLEAN, u \in Users, id \in IdInputs, fail \in BOOLEAN :
             CalculateRisk(u, id, fail, a) /\ AuditDown(a)
       \/ \E a \in BOOLEAN, u \in Users, id \in ReviewIdInputs,
             completedDate \in CompletedDateInputs, nextReviewDate \in NextReviewDateInputs,
             fail \in CompleteFaults :
             Complete(u, id, completedDate, nextReviewDate, fail, a) /\ AuditDown(a)
       \/ \E a \in BOOLEAN, u \in Users, from \in WindowInputs, to \in WindowInputs,
             fail \in StatisticsFaults :
             Statistics(u, from, to, fail, a) /\ AuditDown(a)

AuditSpec == AuditInit /\ [][AuditNext]_vars

\* One request to the statistics route on 2024-08-31, over stores of customers created on
\* 2024-01-31 and on the day itself, each with the score create stored for
\* it or, where that insert failed, none; the first customer, once approved,
\* may have a completed review.
DashboardCustomers ==
    { Merge(BlankCustomer, [user_id |-> "u1", status |-> "PENDING",
                            created_at |-> Midnight(20240131)]),
      Merge(BlankCustomer, [user_id |-> "u1", status |-> "APPROVED",
                            decision_date |-> 20240831, approved_by |-> "e1",
                            date_of_birth |-> 19840101, annual_income |-> 80000,
                            employment_status |-> "FULL_TIME", account_type |-> "SAVINGS",
                            initial_deposit |-> 20000, created_at |-> Midnight(20240831)]),
      Merge(BlankCustomer, [user_id |-> "u2", status |-> "APPROVED",
                            decision_date |-> 20240131, approved_by |-> "e1",
                            date_of_birth |-> 20040115, annual_income |-> 20000,
                            employment_status |-> "PART_TIME", account_type |-> "CHECKING",
                            initial_deposit |-> 500, created_at |-> Midnight(20240131)]),
      Merge(BlankCustomer, [user_id |-> "u2", status |-> "REJECTED",
                            decision_date |-> 20240831, rejection_reason |-> "too risky",
                            created_at |-> Midnight(20240831)]),
      Merge(BlankCustomer, [user_id |-> "u1", status |-> "DRAFT",
                            date_of_birth |-> 19630131, annual_income |-> 100000,
                            employment_status |-> "SELF_EMPLOYED", account_type |-> "BUSINESS",
                            initial_deposit |-> 50000, created_at |-> Midnight(20240831)]) }

DashboardInit ==
    /\ now = Midnight(20240831)
    /\ customers \in SeqsUpTo(DashboardCustomers, MaxInWindow)
    /\ risk_scores \in
          { SelectSeq([i \in 1 .. Len(customers) |->
                          RiskRow(i, calculateRiskScore(customers[i], customers[i].created_at))],
                      LAMBDA r : r.customer_id > missing) : missing \in {0, 1} }
    /\ reviews \in
          { << >> } \cup
          { << [NewReview(1, 20240731) EXCEPT !.status = "COMPLETED",
                                              !.completed_date = 20240201,
                                              !.next_review_date = 20240731] >> :
              c \in { i \in {1} : Len(customers) >= 1 /\ customers[1].status = "APPROVED"
                                  /\ customers[1].decision_date = 20240131 } }
    /\ profiles = [u \in Users |-> NULL]
    /\ users = {}
    /\ audit_down = FALSE
    /\ inflight = NoneInFlight
    /\ last = NoResp

DashboardNext ==
    /\ last = NoResp
    /\ \E u \in Users, from \in WindowInputs, to \in WindowInputs, fail \in StatisticsFaults,
          a \in BOOLEAN :
          Statistics(u, from, to, fail, a) /\ AuditDown(a)

DashboardSpec == DashboardInit /\ [][DashboardNext]_vars

\* Create and calculate-risk alone while time passes, with every caller,
\* path parameter and store fault, for applicants with no columns set and
\* for one who turns 26 between the two days of the clock.
ScoreBodies ==
    { EmptyBody,
      [date_of_birth |-> 19980215, annual_income |-> 20000, employment_status |-> "PART_TIME"] }

ScoreStoreNext ==
    \/ Tick
    \/ \E u \in Users, body \in ScoreBodies, fail \in CreateFaults :
          CreateApplication(u, body, fail, FALSE) /\ AuditDown(FALSE)
    \/ \E u \in Users, id \in IdInputs, fail \in BOOLEAN :
          CalculateRisk(u, id, fail, FALSE) /\ AuditDown(FALSE)

ScoreStoreSpec == Init /\ [][ScoreStoreNext]_vars

\* Two requests of an employee to the backfill or the scheduler route, each
\* served once and step by step, from the stores of ReviewInit.
RaceNext ==
    \E r \in Requests :
        \/ \E kind \in LoopKinds : BeginLoop(r, kind)
        \/ CheckReview(r)
        \/ InsertChecked(r)
        \/ EndLoop(r)

RaceSpec == ReviewInit /\ [][RaceNext]_vars

\* The routes that write reviews, for an employee, while time passes: from
\* any store of at most one sample customer and no review, with every
\* customer and review of the store and every store fault; complete is given
\* a next review date that lies before the second day of the clock.
OpsCompletedDates == {20240201}
OpsNextReviewDates == {NoDate, 20240801}

ReviewOpsInit ==
    /\ now = Midnight(20240131)
    /\ customers \in SeqsUpTo(SampleCustomers, 1)
    /\ reviews = << >>
    /\ risk_scores = ScoresAtCreation(customers, now)
    /\ profiles = [u \in Users |-> NULL]
    /\ users = {}
    /\ audit_down = FALSE
    /\ inflight = NoneInFlight
    /\ last = NoResp

ReviewOpsNext ==
    \/ Tick
    \/ \E id \in 1 .. Len(customers), fail \in ApproveFaults : Approve("e1", id, fail)
    \/ \E fail \in BackfillFaults : Backfill("e1", fail)
    \/ \E fail \in SchedulerFaults : RunScheduler("e1", fail)
    \/ \E id \in 1 .. Len(reviews), completedDate \in OpsCompletedDates,
          nextReviewDate \in OpsNextReviewDates, fail \in CompleteFaults :
          Complete("e1", id, completedDate, nextReviewDate, fail, FALSE) /\ AuditDown(FALSE)

ReviewOpsSpec == ReviewOpsInit /\ [][ReviewOpsNext]_vars

(***************************************************************************)
(* Properties.  The calendar below is stated on its own, not through the   *)
(* Date arithmetic of the handlers.                                        *)
(***************************************************************************)
DaysInMonth(y, m) ==
    IF m = 2
    THEN (IF (y % 4 = 0 /\ y % 100 # 0) \/ y % 400 = 0 THEN 29 ELSE 28)
    ELSE IF m \in {4, 6, 9, 11} THEN 30 ELSE 31

\* The date k calendar months after the date s: the same day of the month,
\* or the last day of the target month when that month is shorter.
CalendarMonthsAfter(s, k) ==
    LET y  == s \div 10000
        m0 == (((s \div 100) % 100) - 1) + k
        y2 == y + m0 \div 12
        m2 == (m0 % 12) + 1
        d  == s % 100
        d2 == IF d > DaysInMonth(y2, m2) THEN DaysInMonth(y2, m2) ELSE d
    IN  y2 * 10000 + m2 * 100 + d2

\* The rows of reviews that belong to customer c, in table order.
ReviewsOf(revs, c) == SelectSeq(revs, LAMBDA r : r.customer_id = c)

\* The rows a step has appended to reviews.
Appended == SubSeq(reviews', Len(reviews) + 1, Len(reviews'))

\* C1: a successful approve of a customer without a review creates exactly
\* one review for it, DRAFT and scheduled 6 calendar months after the
\* decision date; a successful approve of a customer that has a review
\* leaves the reviews of that customer as they are.
ApproveCreatesFirstReview ==
    [][ (last'.op = "approve" /\ last'.code = 200) =>
            LET c == last'.id
            IN  IF ~HasReview(reviews, c)
                THEN /\ Len(ReviewsOf(reviews', c)) = 1
                     /\ ReviewsOf(reviews', c)[1].status = "DRAFT"
                     /\ ReviewsOf(reviews', c)[1].scheduled_date =
                            CalendarMonthsAfter(customers'[c].decision_date, 6)
                ELSE ReviewsOf(reviews', c) = ReviewsOf(reviews, c) ]_vars

\* C2: after a successful approve on either router the caller is an
\* employee, the customer is APPROVED with today's decision date and the
\* approver recorded, and it has at least one review.
ApproveStampsAndEnsuresReview ==
    (last.op \in {"approve", "approveApplication"} /\ last.code = 200) =>
        /\ TokenRole(last.user) = "EMPLOYEE"
        /\ customers[last.id].status = "APPROVED"
        /\ customers[last.id].decision_date = ISODate(Today)
        /\ customers[last.id].approved_by = last.user
        /\ HasReview(reviews, last.id)

\* C5: a successful POST /backfill creates exactly one review for every
\* approved customer without one and none for the others; the review is
\* DRAFT and scheduled 6 months after the decision date, or after today when
\* the customer has no decision date.
BackfillCreatesOnePerMissing ==
    [][ (last'.op = "backfill" /\ last'.code = 200) =>
            LET missing == {c \in ApprovedIds(customers) : ~HasReview(reviews, c)}
            IN  /\ Len(reviews') = Len(reviews) + Cardinality(missing)
                /\ SubSeq(reviews', 1, Len(reviews)) = reviews
                /\ \A c \in missing :
                      \E i \in 1 .. Len(Appended) :
                          /\ Appended[i].customer_id = c
                          /\ Appended[i].status = "DRAFT"
                          /\ Appended[i].scheduled_date =
                                CalendarMonthsAfter(
                                    IF customers[c].decision_date # NoDate
                                    THEN customers[c].decision_date ELSE ISODate(Today), 6) ]_vars

\* C6: a backfill or scheduler run that follows a successful run of the
\* same kind, with no other request and no time in between, inserts nothing;
\* and no run inserts two reviews for one customer.
RunsAreIdempotent ==
    [][ /\ (/\ last.op \in {"backfill", "scheduler"} /\ last.code = 200 /\ ~last.fault
            /\ last'.op = last.op /\ last'.code = 200 /\ ~last'.fault)
           => reviews' = reviews
        /\ (last'.op \in {"backfill", "scheduler"} /\ last'.code = 200)
           => \A i, j \in 1 .. Len(Appended) :
                 Appended[i].customer_id = Appended[j].customer_id => i = j ]_vars

\* C7: a successful complete leaves the review COMPLETED with its completed
\* date set; it appends exactly one review, DRAFT, for the same customer
\* and scheduled on the next review date, when that date was given, and
\* appends nothing otherwise.
CompleteCreatesSuccessor ==
    [][ (last'.op = "complete" /\ last'.code = 200) =>
            LET r == reviews'[last'.id]
            IN  /\ r.status = "COMPLETED"
                /\ r.completed_date # NoDate
                /\ IF last'.body.nextReviewDate # NoDate
                   THEN /\ Len(Appended) = 1
                        /\ Appended[1] = NewReview(r.customer_id, last'.body.nextReviewDate)
                   ELSE Len(Appended) = 0 ]_vars

\* C1 witness: an approve on the last day of August has created the first
\* review of the customer.
ApprovedOnMonthEnd ==
    /\ last.op = "approve" /\ last.code = 200
    /\ customers[last.id].decision_date = 20240831
    /\ Len(ReviewsOf(reviews, last.id)) = 1

\* C3: after a successful approve or backfill every APPROVED customer has a
\* review; the approve has created exactly one review for its own customer
\* when that customer had none, and none for it otherwise.
EveryApprovedHasReview ==
    [][ (last'.op \in {"approve", "backfill"} /\ last'.code = 200) =>
            /\ \A c \in ApprovedIds(customers') : HasReview(reviews', c)
            /\ last'.op = "approve" =>
                  Len(ReviewsOf(reviews', last'.id)) =
                      IF HasReview(reviews, last'.id)
                      THEN Len(ReviewsOf(reviews, last'.id)) ELSE 1 ]_vars

\* C3 witness: an approve at the end of August has also given a review
\* to another approved customer, one without a decision date.
ApproveBackfilledAnother ==
    /\ last.op = "approve" /\ last.code = 200
    /\ \E c \in ApprovedIds(customers) :
          /\ c # last.id
          /\ customers[c].decision_date = NoDate
          /\ \E i \in 1 .. Len(reviews) :
                /\ reviews[i].customer_id = c
                /\ reviews[i].scheduled_date = 20250303

\* C4: a customer that is APPROVED with a decision date eventually has a
\* review scheduled 6 calendar months after the decision date it then has.
ApprovedEventuallyReviewed ==
    \A c \in 1 .. MaxCustomers :
        (/\ c \in 1 .. Len(customers)
         /\ customers[c].status = "APPROVED"
         /\ customers[c].decision_date # NoDate)
        ~> (/\ c \in 1 .. Len(customers)
            /\ \E i \in 1 .. Len(reviews) :
                  /\ reviews[i].customer_id = c
                  /\ reviews[i].scheduled_date =
                         CalendarMonthsAfter(customers[c].decision_date, 6))

TableAge(age) ==
    CASE age \in 18 .. 25 -> 10
      [] age \in 26 .. 40 -> 5
      [] age \in 41 .. 60 -> 3
      [] age > 60 -> 8
      [] age < 18 -> 0
TableIncome(income) ==
    CASE income < 30000 -> 10
      [] income >= 30000 /\ income < 60000 -> 5
      [] income >= 60000 /\ income < 100000 -> 3
      [] income >= 100000 -> 1
TableEmployment ==
    [s \in EmploymentStatuses |->
        IF s = "UNEMPLOYED" THEN 10 ELSE IF s = "PART_TIME" THEN 7
        ELSE IF s = "SELF_EMPLOYED" THEN 5 ELSE IF s = "FULL_TIME" THEN 2 ELSE 5]
TableAccountType ==
    [a \in AccountTypes |->
        IF a = "INVESTMENT" THEN 1 ELSE IF a = "BUSINESS" THEN 3
        ELSE IF a = "SAVINGS" THEN 5 ELSE IF a = "CHECKING" THEN 7 ELSE 5]
TableDeposit(deposit) ==
    CASE deposit < 1000 -> 5
      [] deposit >= 1000 /\ deposit < 10000 -> 2
      [] deposit >= 10000 /\ deposit < 50000 -> 1
      [] deposit >= 50000 -> 0

\* The risk score stored for customer c.
ScoreOf(c) == risk_scores[CHOOSE i \in 1 .. Len(risk_scores) : risk_scores[i].customer_id = c]

\* The risk score just calculated, if the last request calculated one.
Calculated == last.op = "calculateRisk" /\ last.code = 200

\* C9: the factors of a calculated score are those of the factor table for
\* the age, income, employment status, account type and deposit of the
\* customer; the two worked examples give 10,10,10,7,5 = 42 HIGH and
\* 3,3,2,5,1 = 14 LOW.
FactorsFollowTable ==
    Calculated =>
        LET c   == customers[last.id]
            r   == ScoreOf(last.id)
            age == AgeAt(c.date_of_birth, now)
        IN  /\ r.age_factor = TableAge(age)
            /\ c.annual_income >= 0 => r.income_factor = TableIncome(c.annual_income)
            /\ r.employment_factor = TableEmployment[c.employment_status]
            /\ r.account_type_factor = TableAccountType[c.account_type]
            /\ c.initial_deposit >= 0 => r.deposit_factor = TableDeposit(c.initial_deposit)
            /\ (/\ age = 20 /\ c.annual_income = 20000 /\ c.employment_status = "UNEMPLOYED"
                /\ c.account_type = "CHECKING" /\ c.initial_deposit = 500)
               => r = RiskRow(last.id, [score |-> 42, risk_level |-> "HIGH", age_factor |-> 10,
                                        income_factor |-> 10, employment_factor |-> 10,
                                        account_type_factor |-> 7, deposit_factor |-> 5])
            /\ (/\ age = 50 /\ c.annual_income = 80000 /\ c.employment_status = "FULL_TIME"
                /\ c.account_type = "SAVINGS" /\ c.initial_deposit = 20000)
               => r = RiskRow(last.id, [score |-> 14, risk_level |-> "LOW", age_factor |-> 3,
                                        income_factor |-> 3, employment_factor |-> 2,
                                        account_type_factor |-> 5, deposit_factor |-> 1])

\* C9 witness: the first worked example has been scored.
FirstExampleScored ==
    /\ Calculated
    /\ AgeAt(customers[last.id].date_of_birth, now) = 20
    /\ customers[last.id].annual_income = 20000
    /\ customers[last.id].employment_status = "UNEMPLOYED"
    /\ customers[last.id].account_type = "CHECKING"
    /\ customers[last.id].initial_deposit = 500
    /\ ScoreOf(last.id).score = 42

\* C10: a calculated score is the sum of its five factors and lies in
\* 0 .. 45; its level is HIGH exactly from 41, MEDIUM exactly from 21 to 40,
\* and LOW otherwise.
ScoreIsSumAndLevelFollows ==
    Calculated =>
        LET r == ScoreOf(last.id)
        IN  /\ r.score = r.age_factor + r.income_factor + r.employment_factor
                         + r.account_type_factor + r.deposit_factor
            /\ r.score \in 0 .. 45
            /\ r.risk_level = "HIGH" <=> r.score >= 41
            /\ r.risk_level = "MEDIUM" <=> (r.score >= 21 /\ r.score < 41)
            /\ r.risk_level = "LOW" <=> r.score < 21

\* C10 witness: a score of exactly 21 has been calculated and is MEDIUM.
LowestMediumScored ==
    /\ Calculated
    /\ ScoreOf(last.id).score = 21
    /\ ScoreOf(last.id).risk_level = "MEDIUM"

\* The risk score stored for customer c in the table rows.
ScoreIn(rows, c) == rows[CHOOSE i \in 1 .. Len(rows) : rows[i].customer_id = c]

\* C11: scoring a customer whose five inputs are what they were when its
\* stored score was calculated returns that same score, level and factors.
ScoreDependsOnInputsOnly ==
    [][ (/\ last'.op = "calculateRisk" /\ last'.code = 200
         /\ customers' = customers
         /\ \E i \in 1 .. Len(risk_scores) : risk_scores[i].customer_id = last'.id)
        => ScoreIn(risk_scores', last'.id) = ScoreIn(risk_scores, last'.id) ]_vars

\* C12: scoring a customer whose annual_income is missing or not a number
\* succeeds with the income factor of the value 0, which is 10, and scoring
\* one whose initial_deposit is missing or not a number succeeds with the
\* deposit factor of the value 0, which is 5.
MissingAmountsScoreAsZero ==
    last.op = "calculateRisk" =>
        LET c == customers[last.id]
        IN  /\ c.annual_income \in {NoNumber, NotNumeric} =>
                /\ last.code = 200
                /\ ScoreOf(last.id).income_factor = incomeFactor(0)
                /\ ScoreOf(last.id).income_factor = 10
            /\ c.initial_deposit \in {NoNumber, NotNumeric} =>
                /\ last.code = 200
                /\ ScoreOf(last.id).deposit_factor = depositFactor(0)
                /\ ScoreOf(last.id).deposit_factor = 5

\* C13: an employee's reject whose reason is missing or shorter than 10
\* characters is answered 400 and leaves customers unchanged; one whose
\* reason has at least 10 characters, for a customer that exists and with the
\* update succeeding, is answered 200 and sets that customer's status to
\* REJECTED, its decision_date to the current date and its rejection_reason
\* to the reason, no other row or column changing.
RejectValidatesReason ==
    [][ (last'.op = "reject" /\ TokenRole(last'.user) = "EMPLOYEE") =>
            LET reason == last'.body.reason
                id     == last'.id
            IN  IF reason = NULL \/ Len(reason) < 10
                THEN last'.code = 400 /\ customers' = customers
                ELSE (id \in 1 .. Len(customers) /\ ~last'.fault) =>
                        /\ last'.code = 200
                        /\ customers' = [customers EXCEPT
                               ![id] = [customers[id] EXCEPT
                                           !.status = "REJECTED",
                                           !.decision_date = ISODate(now \div 4),
                                           !.rejection_reason = reason]]
                        /\ customers'[id].decision_date # NoDate ]_vars

\* C13 witness: a reason of 9 characters has been refused, the customer named
\* by the request existing and not being rejected.
NineCharacterReasonRefused ==
    /\ last.op = "reject" /\ last.code = 400
    /\ last.body.reason # NULL /\ Len(last.body.reason) = 9
    /\ last.id \in 1 .. Len(customers)
    /\ customers[last.id].status # "REJECTED"

\* C14: in every reachable state a customer whose rejection_reason is set
\* has status REJECTED, and the reason that is set has at least 10 characters.
ReasonOnlyOnRejected ==
    \A i \in 1 .. Len(customers) :
        customers[i].rejection_reason # NULL =>
            /\ customers[i].status = "REJECTED"
            /\ Len(customers[i].rejection_reason) >= 10

\* C15: no request of a user whose role is CUSTOMER makes the status of a
\* customer APPROVED or REJECTED, or changes the decision_date or the
\* approved_by of a customer.
CustomersNeverDecide ==
    [][ last'.user \in CustomerUsers =>
            /\ \A i \in 1 .. Len(customers) :
                /\ customers'[i].status \in {"APPROVED", "REJECTED"} =>
                       customers'[i].status = customers[i].status
                /\ customers'[i].decision_date = customers[i].decision_date
                /\ customers'[i].approved_by = customers[i].approved_by
            /\ \A i \in (Len(customers) + 1) .. Len(customers') :
                customers'[i].status \notin {"APPROVED", "REJECTED"} ]_vars

\* C16: a customer is created with status DRAFT, and an approve or a reject
\* that succeeds is applied to a customer whose status is PENDING.
DecidedOnlyFromPending ==
    [][ /\ \A i \in (Len(customers) + 1) .. Len(customers') :
              customers'[i].status = "DRAFT"
        /\ (last'.op \in {"approveApplication", "approve", "reject"} /\ last'.code = 200) =>
              customers[last'.id].status = "PENDING" ]_vars

\* C17: a get-by-id of a user whose token role is CUSTOMER for a customer
\* that user does not own is answered 403 with no field of the record,
\* whatever profiles holds; the owner and the employees are answered 200
\* with the record.
OthersRecordForbidden ==
    (last.op = "getById" /\ last.id \in 1 .. Len(customers)) =>
        IF TokenRole(last.user) = "CUSTOMER" /\ customers[last.id].user_id # last.user
        THEN last.code = 403 /\ last.body = << >>
        ELSE last.code = 200 /\ last.body.id = last.id
                             /\ last.body.status = customers[last.id].status

\* C18: in an update that supplies a new and a current password for a
\* customer whose user exists, no store call failing, the stored password
\* hash changes only if the
\* current password matches the stored hash; on a mismatch the request is
\* answered 403, the authorization error, and users and customers are
\* unchanged.
CurrentPasswordGuardsChange ==
    [][ (/\ last'.op = "update"
         /\ Supplied(last'.body.request, "password")
         /\ Supplied(last'.body.request, "currentPassword")
         /\ last'.id \in 1 .. Len(customers)
         /\ \E r \in users : r.id = customers[last'.id].user_id
         /\ ~last'.fault) =>
            LET user  == CHOOSE r \in users : r.id = customers[last'.id].user_id
                match == user.password_hash.bcrypt = last'.body.request.currentPassword
            IN  /\ users' # users => match
                /\ ~match => /\ last'.code = 403
                             /\ users' = users
                             /\ customers' = customers ]_vars

\* C19: whatever password fields the body of an update holds, the payload
\* handed to the update of customers has neither a password nor a
\* currentPassword field.
PayloadHasNoPasswordField ==
    (last.op = "update" /\ last.body.payload # << >>) =>
        /\ "password" \notin DOMAIN last.body.payload[1]
        /\ "currentPassword" \notin DOMAIN last.body.payload[1]

\* C20: a registration whose insert of the customer fails is answered 500
\* with that error and leaves users as it was, and in every state every user
\* of role CUSTOMER has a customer record.
NoOrphanedCustomerUser ==
    /\ \A r \in users :
           r.role = "CUSTOMER" => \E i \in 1 .. Len(customers) : customers[i].user_id = r.id
    /\ (last.op = "register" /\ last.fault) => last.code = 500

\* C21: a registration that gives an email and a password, the email being
\* that of a user and the check of the email succeeding, is answered 409 and
\* leaves users and customers unchanged; and after every step no two rows of
\* users share an email.
DuplicateEmailRefused ==
    [][ /\ (/\ last'.op = "register"
            /\ last'.body.email # NULL /\ last'.body.password # NULL
            /\ \E r \in users : r.email = last'.body.email
            /\ ~last'.fault) =>
               /\ last'.code = 409
               /\ users' = users
               /\ customers' = customers
        /\ \A r1, r2 \in users' : r1.email = r2.email => r1 = r2 ]_vars

\* C21 witness: a registration has been answered 409, the email being that
\* of a user.
SecondRegistrationRefused ==
    /\ last.op = "register" /\ last.code = 409
    /\ \E r \in users : r.email = last.body.email

\* A request of AuditSpec served with the audit write succeeding.
ServedWithAuditWritten ==
    \/ \E email \in Emails, accountType \in RegisterAccountTypes, fail \in RegisterFaults :
          Register(email, "old-secret", accountType, fail, FALSE)
    \/ \E u \in Users, body \in Bodies, fail \in CreateFaults :
          CreateApplication(u, body, fail, FALSE)
    \/ \E u \in Users, id \in IdInputs, fail \in BOOLEAN : Submit(u, id, fail, FALSE)
    \/ \E u \in Users, id \in IdInputs, body \in Bodies, fail \in UpdateFaults :
          Update(u, id, body, fail, FALSE)
    \/ \E u \in Users, id \in IdInputs, fail \in BOOLEAN :
          ApproveApplication(u, id, fail, FALSE)
    \/ \E u \in Users, id \in IdInputs, reason \in Reasons, fail \in BOOLEAN :
          Reject(u, id, reason, fail, FALSE)
    \/ \E u \in Users, id \in IdInputs, fail \in BOOLEAN : CalculateRisk(u, id, fail, FALSE)
    \/ \E u \in Users, id \in ReviewIdInputs, completedDate \in CompletedDateInputs,
          nextReviewDate \in NextReviewDateInputs, fail \in CompleteFaults :
          Complete(u, id, completedDate, nextReviewDate, fail, FALSE)
    \/ \E u \in Users, from \in WindowInputs, to \in WindowInputs, fail \in StatisticsFaults :
          Statistics(u, from, to, fail, FALSE)

\* C22: the response and the customers, reviews, risk_scores and users that
\* a request leaves when its audit write fails are those that some request
\* leaves from the same state when its audit write succeeds.
AuditFailureChangesNothing ==
    [][ audit_down' => ServedWithAuditWritten ]_vars

\* C22 witness: a review has been completed and its successor created while
\* audit_logs refused the write.
CompletedWhileAuditDown ==
    /\ audit_down
    /\ last.op = "complete" /\ last.code = 200
    /\ Len(reviews) = 2 /\ reviews[1].status = "COMPLETED"

\* The last response is a result of the statistics route.
StatisticsServed == last.op = "statistics" /\ last.code = 200

\* C23: in every statistics result the approval rate is 0 when there are
\* no applications and otherwise the percentage approved / total to the
\* nearest hundredth, so it lies between 0 and 100; approved, pending and
\* rejected together never exceed the total.  (Rates are in hundredths of
\* a percent.)
ApprovalRateIsRoundedShare ==
    StatisticsServed =>
        LET r == last.body
        IN  /\ r.totalApplications = 0 => r.approvalRate = 0
            /\ r.totalApplications > 0 =>
                   /\ 2 * (r.approvalRate * r.totalApplications - 10000 * r.approved)
                         <= r.totalApplications
                   /\ 2 * (10000 * r.approved - r.approvalRate * r.totalApplications)
                         <= r.totalApplications
            /\ 0 <= r.approvalRate /\ r.approvalRate <= 10000
            /\ r.approved + r.pending + r.rejected <= r.totalApplications

\* C23 witness: two of three applications are approved and the rate is 66.67.
TwoThirdsApproved ==
    /\ StatisticsServed
    /\ last.body.totalApplications = 3 /\ last.body.approved = 2
    /\ last.body.approvalRate = 6667

\* C24: in every statistics result the low, medium, high and unknown counts
\* add up to the total; and when the total is positive and every customer
\* has a risk score, the unknown count is 0, low, medium and high add up to
\* the total and the four percentages add up to 100 within rounding.
RiskBucketsCoverWindow ==
    StatisticsServed =>
        LET r == last.body
            d == r.riskDistribution
        IN  /\ d["LOW"].count + d["MEDIUM"].count + d["HIGH"].count + d["UNKNOWN"].count
                  = r.totalApplications
            /\ ( /\ r.totalApplications > 0
                 /\ \A c \in 1 .. Len(customers) : \E i \in 1 .. Len(risk_scores) :
                        risk_scores[i].customer_id = c )
               => /\ d["UNKNOWN"].count = 0
                  /\ d["LOW"].count + d["MEDIUM"].count + d["HIGH"].count = r.totalApplications
                  /\ LET sum == d["LOW"].percent + d["MEDIUM"].percent + d["HIGH"].percent
                                   + d["UNKNOWN"].percent
                     IN  10000 - 2 <= sum /\ sum <= 10000 + 2

\* C25: a request to the statistics route, whatever its caller, its window,
\* the store calls that fail and its response, leaves customers, risk_scores,
\* reviews and users as they were.
StatisticsReadsOnly ==
    [][ last'.op = "statistics" => UNCHANGED <<customers, risk_scores, reviews, users>> ]_vars

\* C25 witness: the route has failed on a store that holds customers, scores
\* and a review.
StatisticsFailedOnFilledStore ==
    /\ last.op = "statistics" /\ last.code = 500
    /\ customers # << >> /\ risk_scores # << >> /\ reviews # << >>

\* C26: after any sequence of create and calculate-risk requests no two rows
\* of risk_scores have the same customer_id, and right after a calculate-risk
\* that succeeded for a customer the one row of that customer is the score
\* of the customer's columns as they are.
OneCurrentScorePerCustomer ==
    /\ \A i, j \in 1 .. Len(risk_scores) :
          risk_scores[i].customer_id = risk_scores[j].customer_id => i = j
    /\ (last.op = "calculateRisk" /\ last.code = 200) =>
          SelectSeq(risk_scores, LAMBDA r : r.customer_id = last.id)
             = << RiskRow(last.id, calculateRiskScore(customers[last.id], now)) >>

\* C26 witness: the score stored in January for an applicant of 25 has been
\* calculated again in August, when the applicant is 26.
ScoreRecalculatedAfterBirthday ==
    /\ last.op = "calculateRisk" /\ last.code = 200
    /\ now = Midnight(20240831)
    /\ customers[last.id].created_at = Midnight(20240131)
    /\ customers[last.id].date_of_birth = 19980215
    /\ \E i \in 1 .. Len(risk_scores) :
          risk_scores[i].customer_id = last.id /\ risk_scores[i].age_factor = 5

\* C27: a request that has seen no review for an approved customer inserts
\* a DRAFT review for that customer, whatever another request has inserted
\* since the check; two requests that interleave their checks and inserts
\* on a customer without reviews therefore leave that customer with two
\* DRAFT reviews.
CheckedInsertIsNeverSuppressed ==
    [][ \A r \in Requests :
            (inflight[r].pc = "insert" /\ inflight'[r].pc # "insert") =>
                /\ Len(reviews') = Len(reviews) + 1
                /\ reviews'[Len(reviews')].customer_id = Head(inflight[r].todo).id
                /\ reviews'[Len(reviews')].status = "DRAFT" ]_vars

\* C27 witness: both requests are answered, the approved customer 1 had no
\* review, both have created one, and customer 1 has two DRAFT reviews.
TwoDraftReviewsForOneCustomer ==
    /\ \A r \in Requests : inflight[r].pc = "done" /\ 1 \in inflight[r].created
    /\ customers[1].status = "APPROVED"
    /\ Len(reviews) = 2
    /\ \A i \in 1 .. 2 : reviews[i].customer_id = 1 /\ reviews[i].status = "DRAFT"

\* C28: every element of riskDetails in a statistics result carries, for a
\* customer with a stored score, the level that the scorer stored with that
\* score (HIGH from 41, MEDIUM from 21, else LOW), and UNKNOWN for a
\* customer without one.
ReadPathsReportScorerLevel ==
    StatisticsServed =>
        \A k \in 1 .. Len(last.body.riskDetails) :
            LET detail == last.body.riskDetails[k]
                stored == SelectSeq(risk_scores, LAMBDA r : r.customer_id = detail.customer_id)
            IN  IF stored = << >> THEN detail.risk_level = "UNKNOWN"
                ELSE /\ detail.risk_level = stored[1].risk_level
                     /\ detail.risk_level = riskLevel(detail.risk_score)

\* C29: in every state reached through approve, backfill, scheduler run and
\* complete, a review with a next_review_date or a completed_date is
\* COMPLETED, so no review is overdue (next_review_date before now and not
\* COMPLETED); and a COMPLETED review stays COMPLETED.
DatedReviewsAreCompleted ==
    /\ [](\A i \in 1 .. Len(reviews) :
            /\ (reviews[i].next_review_date # NoDate \/ reviews[i].completed_date # NoDate)
                  => reviews[i].status = "COMPLETED"
            /\ ~(/\ reviews[i].next_review_date # NoDate
                 /\ 4 * NewDate(reviews[i].next_review_date) < now
                 /\ reviews[i].status # "COMPLETED"))
    /\ [][ \A i \in 1 .. Len(reviews) :
              reviews[i].status = "COMPLETED" =>
                  i <= Len(reviews') /\ reviews'[i].status = "COMPLETED" ]_vars

\* C29 witness: a review was completed with a next review date that has
\* passed since, and its DRAFT successor carries no dates.
NextReviewDatePassed ==
    /\ Len(reviews) = 2
    /\ reviews[1].status = "COMPLETED"
    /\ reviews[1].next_review_date # NoDate
    /\ 4 * NewDate(reviews[1].next_review_date) < now
    /\ reviews[2].status = "DRAFT" /\ reviews[2].next_review_date = NoDate

\* C30: an approve request that is answered with a failure leaves no
\* customer APPROVED and without a review who was not so before the request.
FailedApproveIsCompensated ==
    [][ (last'.op = "approve" /\ last'.code = 500) =>
            \A c \in 1 .. Len(customers') :
                (customers'[c].status = "APPROVED" /\ ~HasReview(reviews', c)) =>
                    (customers[c].status = "APPROVED" /\ ~HasReview(reviews, c)) ]_vars

====
